---- MODULE Spec2Model ----
(***************************************************************************)
(* Model of the MCP AI Assistant REST API (api_server.py) and of the tool  *)
(* functions its handlers call (finance_tools.py, news_tools.py,           *)
(* music_tools.py, data_analysis_tools.py).                                *)
(*                                                                         *)
(* The server keeps no state of its own between requests.  The state of    *)
(* the model is the process environment, the audio files the music tool    *)
(* has saved, the request being served with its response and the provider  *)
(* or tool calls made for it, and whether the request before it failed.    *)
(* Every handler is one action: the whole body between "try:" and the      *)
(* handler boundary, with the request and the answers of the external      *)
(* providers and libraries drawn from small sets; send_response hands the  *)
(* response to the client and frees the server.                            *)
(*                                                                         *)
(* Spec serves one request at a time.  ConcSpec has several requests in    *)
(* service at once (inflight), each stepping through its handler.          *)
(*                                                                         *)
(* Texts that the code builds with f-strings are tuples of their pieces.   *)
(* Texts that the code inspects (the analysis query, the scrape prompt,    *)
(* the page text) are strings, and lower(), split() and the substring test *)
(* "kw in text" are computed on their characters as the code computes them.*)
(* Numbers are integers (floats that are exactly representable); a         *)
(* quotient is the reduced fraction [num, den].  Timestamps are left out.  *)
(***************************************************************************)
EXTENDS Integers, Sequences, FiniteSets, TLC

VARIABLES env, files, prev_failed, request, response, calls, inflight

vars == <<env, files, prev_failed, request, response, calls, inflight>>

\* ------------------------------------------------------------------ bounds
MaxOperand == 3
MaxArticles == 2
MaxRows == 2
MaxQueryWords == 2
MaxElements == 2
MaxFiles == 2
MaxInflight == 2

\* ------------------------------------------------------------ small helpers
Abs(n) == IF n < 0 THEN -n ELSE n

RECURSIVE Gcd(_, _)
Gcd(m, n) == IF n = 0 THEN m ELSE Gcd(n, m % n)

Min(m, n) == IF m <= n THEN m ELSE n

\* Python values a tool or a handler can hand back.
PyNone == [type |-> "NoneType", value |-> <<>>]
PyStr(pieces) == [type |-> "str", value |-> pieces]
PyList(items) == [type |-> "list", value |-> items]

\* ---------------------------------------------------------------- strings
UpperCase == "ABCDEFGHIJKLMNOPQRSTUVWXYZ"
LowerCase == "abcdefghijklmnopqrstuvwxyz"

CharAt(s, i) == SubSeq(s, i, i)

\* str.lower() and str.upper() of one character
LowerOf == [c \in {CharAt(UpperCase, i) : i \in 1..26} |->
               CharAt(LowerCase, CHOOSE i \in 1..26 : CharAt(UpperCase, i) = c)]

UpperOf == [c \in {CharAt(LowerCase, i) : i \in 1..26} |->
               CharAt(UpperCase, CHOOSE i \in 1..26 : CharAt(LowerCase, i) = c)]

RECURSIVE concat(_)
concat(ss) == IF Len(ss) = 0 THEN "" ELSE Head(ss) \o concat(Tail(ss))

lower(s) == concat([i \in 1..Len(s) |->
                       IF CharAt(s, i) \in DOMAIN LowerOf THEN LowerOf[CharAt(s, i)]
                       ELSE CharAt(s, i)])

upper(s) == concat([i \in 1..Len(s) |->
                       IF CharAt(s, i) \in DOMAIN UpperOf THEN UpperOf[CharAt(s, i)]
                       ELSE CharAt(s, i)])

\* "kw in s"
Contains(kw, s) ==
    \E i \in 1..(Len(s) - Len(kw) + 1) : SubSeq(s, i, i + Len(kw) - 1) = kw

\* any(word in s for word in kws)
AnyIn(kws, s) == \E kw \in kws : Contains(kw, s)

endswith(s, suffix) ==
    /\ Len(s) >= Len(suffix)
    /\ SubSeq(s, Len(s) - Len(suffix) + 1, Len(s)) = suffix

startswith(s, prefix) ==
    /\ Len(s) >= Len(prefix)
    /\ SubSeq(s, 1, Len(prefix)) = prefix

\* s.replace(old, "") for an old that occurs at most once, at the end
StripSuffix(s, suffix) ==
    IF endswith(s, suffix) THEN SubSeq(s, 1, Len(s) - Len(suffix)) ELSE s

\* ------------------------------------------------------------- exceptions
\* An exception is [type, status, detail, msg]; HTTPException carries
\* status_code and detail, every other exception carries its message.
HTTPException(status_code, detail) ==
    [type |-> "HTTPException", status |-> status_code, detail |-> detail, msg |-> <<>>]

Raised(type, msg) ==
    [type |-> type, status |-> 0, detail |-> <<>>, msg |-> msg]

\* The texts str(e) can have for an HTTPException built with keyword
\* arguments: empty (Exception.__str__ over empty args) or
\* "<status>: <detail>" (HTTPException.__str__), by the installed framework.
StrForms == {"empty", "status_detail"}

str(e, form) ==
    IF e.type = "HTTPException"
    THEN IF form = "status_detail" THEN <<e.status, ": ">> \o e.detail ELSE <<>>
    ELSE e.msg

\* The outcome of a handler body: it returned content, or it raised.
Returned(content) == [ok |-> TRUE, content |-> content]
Raises(e)         == [ok |-> FALSE, exc |-> e]

NoCatchAll(outcome, form) ==
    IF outcome.ok
    THEN [status |-> 200, body |-> outcome.content]
    ELSE IF outcome.exc.type = "HTTPException"
         THEN [status |-> outcome.exc.status, body |-> [detail |-> outcome.exc.detail]]
         ELSE [status |-> 500, body |-> [detail |-> <<"Internal Server Error">>]]

\* The handler boundary: "except Exception as e: raise HTTPException(400, str(e))".
HandlerBoundary(outcome, form) ==
    IF outcome.ok
    THEN [status |-> 200, body |-> outcome.content]
    ELSE [status |-> 400, body |-> [detail |-> str(outcome.exc, form)]]

\* ------------------------------------------------------------------- math
\* The operands of the API's own tests (test_api.py) and a range around 0.
Operands == (-MaxOperand)..MaxOperand \cup {5, 6, 7, 8, 10, 15, 20}

TrueDivide(a, b) ==
    LET g == Gcd(Abs(a), Abs(b))
        s == IF b < 0 THEN -1 ELSE 1
    IN  [num |-> (s * a) \div g, den |-> (s * b) \div g]

add_body(r) ==
    Returned([result |-> r.a + r.b, operation |-> "addition", inputs |-> <<r.a, r.b>>])

multiply_body(r) ==
    Returned([result |-> r.a * r.b, operation |-> "multiplication", inputs |-> <<r.a, r.b>>])

SubtractReversed(r) ==
    Returned([result |-> r.b - r.a, operation |-> "subtraction", inputs |-> <<r.a, r.b>>])

subtract_body(r) ==
    Returned([result |-> r.a - r.b, operation |-> "subtraction", inputs |-> <<r.a, r.b>>])

DivideUnguarded(r) ==
    Returned([result |-> IF r.b = 0 THEN [num |-> 0, den |-> 1] ELSE TrueDivide(r.a, r.b),
              operation |-> "division", inputs |-> <<r.a, r.b>>])

divide_body(r) ==
    IF r.b = 0
    THEN Raises(HTTPException(400, <<"Cannot divide by zero">>))
    ELSE Returned([result |-> TrueDivide(r.a, r.b), operation |-> "division",
                   inputs |-> <<r.a, r.b>>])

\* ----------------------------------------------------------------- health
Services == <<"math", "finance", "news", "music", "data_analysis", "web_scraping">>

HealthPayload ==
    [status |-> "healthy", version |-> "1.0.0", services |-> Services]

\* ------------------------------------------------------------ environment
\* os.getenv(name): "" stands for an unset (or empty) variable.
KeyValues == {"", "sk-env"}

Environ == [OPENAI_API_KEY : KeyValues, MODELSLAB_API_KEY : KeyValues]

\* ------------------------------------------------------ external providers
\* What a provider call can do: raise, or answer.
ProviderErrors == {Raised("ConnectionError", <<"Max retries exceeded">>),
                   Raised("HTTPError", <<"404 Client Error: Not Found">>)}

\* dict.get(key, default); a dict is a function over the keys it has.
Get(d, key, default) == IF key \in DOMAIN d THEN d[key] ELSE default

\* bool(v) of a number
Truthy(v) == v # 0

\* ticker.info: the price is absent, zero or positive; each of the fields in
\* VariedFields is present or not on its own; the remaining fields the tools
\* read are all present or all absent.
VariedFields == {"marketCap", "circulatingSupply", "longName"}

OtherFields == {"currency", "previousClose", "volume", "fiftyTwoWeekHigh",
                "fiftyTwoWeekLow", "regularMarketChangePercent", "trailingPE",
                "forwardPE", "pegRatio", "priceToBook", "enterpriseValue",
                "totalRevenue", "profitMargins", "operatingMargins",
                "returnOnEquity", "returnOnAssets", "dividendYield",
                "dividendRate", "payoutRatio"}

FieldValue(k) ==
    CASE k = "longName" -> "Apple Inc."
      [] k = "currency" -> "USD"
      [] k = "marketCap" -> 3000
      [] k = "circulatingSupply" -> 19
      [] k = "volume" -> 50
      [] OTHER -> 2

PriceChoices == {"absent", "zero", "positive"}

MkInfo(price, fields) ==
    [k \in fields \cup (IF price = "absent" THEN {} ELSE {"regularMarketPrice"}) |->
        IF k = "regularMarketPrice"
        THEN (IF price = "zero" THEN 0 ELSE 150)
        ELSE FieldValue(k)]

Infos == {MkInfo(p, v \cup o) : p \in PriceChoices, v \in SUBSET VariedFields,
                               o \in {{}, OtherFields}}

TickerAnswers == {[ok |-> FALSE, exc |-> e] : e \in ProviderErrors}
                 \cup {[ok |-> TRUE, info |-> i] : i \in Infos}

Symbols == {"AAPL", "aapl", "btc", "BTC-USD"}

\* f"{info.get(key, 'N/A'):,.0f}": a number is formatted; the default 'N/A'
\* of an absent key is a str, and the format code 'f' raises ValueError for it.
CanFormatF(d, key) == key \in DOMAIN d

FormatError == Raised("ValueError", <<"Unknown format code 'f' for object of type 'str'">>)

\* ---------------------------------------------------------- finance_tools
StockPriceRaises(symbol, answer) ==
    IF ~answer.ok
    THEN Raises(answer.exc)
    ELSE Returned(PyStr(<<"Stock Price for ", upper(symbol)>>))

\* The tools return Returned(str): "except Exception" leaves nothing to raise.
get_stock_price(symbol, answer) ==
    IF ~answer.ok
    THEN Returned(PyStr(<<"Error retrieving stock price for ", symbol, ": ">>
                        \o str(answer.exc, "empty")))
    ELSE LET info == answer.info IN
         IF "regularMarketPrice" \in DOMAIN info /\ Truthy(info["regularMarketPrice"])
         THEN LET currency == Get(info, "currency", "USD") IN
              Returned(PyStr(<<"**Stock Price for ", Get(info, "longName", upper(symbol)),
                               " (", upper(symbol), ")**",
                               "- **Current Price**: ", info["regularMarketPrice"], currency,
                               "- **Previous Close**: ", Get(info, "previousClose", "N/A"), currency,
                               "- **Market Cap**: ", Get(info, "marketCap", "N/A"), currency,
                               "- **Volume**: ", Get(info, "volume", "N/A"),
                               "- **52 Week High**: ", Get(info, "fiftyTwoWeekHigh", "N/A"), currency,
                               "- **52 Week Low**: ", Get(info, "fiftyTwoWeekLow", "N/A"), currency>>))
         ELSE Returned(PyStr(<<"Could not retrieve stock price for ", upper(symbol),
                               ". Please check the symbol and try again.">>))

FundamentalFields == <<"trailingPE", "forwardPE", "pegRatio", "priceToBook",
                       "enterpriseValue", "totalRevenue", "profitMargins",
                       "operatingMargins", "returnOnEquity", "returnOnAssets",
                       "dividendYield", "dividendRate", "payoutRatio">>

get_stock_fundamentals(symbol, answer) ==
    IF ~answer.ok
    THEN Returned(PyStr(<<"Error retrieving fundamentals for ", symbol, ": ">>
                        \o str(answer.exc, "empty")))
    ELSE LET info == answer.info IN
         Returned(PyStr(<<"**Fundamental Analysis for ", Get(info, "longName", upper(symbol)),
                          " (", upper(symbol), ")**">>
                        \o [i \in 1..Len(FundamentalFields) |->
                               Get(info, FundamentalFields[i], "N/A")]))

\* "if not symbol.endswith('-USD'): symbol = f'{symbol.upper()}-USD'"
CryptoSymbol(symbol) ==
    IF ~endswith(symbol, "-USD") THEN upper(symbol) \o "-USD" ELSE symbol

get_crypto_price(symbol, answer) ==
    LET sym == CryptoSymbol(symbol)
        failed(e) == Returned(PyStr(<<"Error retrieving crypto price for ", sym, ": ">>
                                    \o str(e, "empty")))
    IN  IF ~answer.ok
        THEN failed(answer.exc)
        ELSE LET info == answer.info IN
             IF "regularMarketPrice" \in DOMAIN info /\ Truthy(info["regularMarketPrice"])
             THEN IF /\ CanFormatF(info, "marketCap")
                     /\ CanFormatF(info, "circulatingSupply")
                  THEN Returned(PyStr(<<"**Cryptocurrency Price: ", StripSuffix(sym, "-USD"), "**",
                                        "- **Current Price**: $", info["regularMarketPrice"], " USD",
                                        "- **24h Change**: ", Get(info, "regularMarketChangePercent", "N/A"), "%",
                                        "- **24h Volume**: ", Get(info, "volume", "N/A"),
                                        "- **Market Cap**: $", info["marketCap"], " USD",
                                        "- **Circulating Supply**: ", info["circulatingSupply"]>>))
                  ELSE failed(FormatError)
             ELSE Returned(PyStr(<<"Could not retrieve price for ", StripSuffix(sym, "-USD"),
                                   ". Please check the symbol.">>))

\* -------------------------------------------------------------- news_tools
\* One search result: a dict that has the three keys or lacks the title.
SearchResults == {[title |-> "Headline", href |-> "https://news.example/1", body |-> "Text"],
                  [href |-> "https://news.example/2", body |-> "Text"]}

RECURSIVE SeqsUpTo(_, _)
SeqsUpTo(S, n) ==
    IF n = 0 THEN {<<>>}
    ELSE LET shorter == SeqsUpTo(S, n - 1)
         IN  shorter \cup {Append(s, x) : s \in {t \in shorter : Len(t) = n - 1}, x \in S}

\* ddg.text(query, max_results): raises, or answers with what it found
SearchAnswers == {[ok |-> FALSE, exc |-> e] : e \in ProviderErrors}
                 \cup {[ok |-> TRUE, found |-> f] : f \in SeqsUpTo(SearchResults, MaxArticles)}

Topics == {"AI"}

\* NewsRequest.max_results: null, or an integer
MaxResultsChoices == {[null |-> TRUE, n |-> 0], [null |-> FALSE, n |-> 0],
                      [null |-> FALSE, n |-> 1], [null |-> FALSE, n |-> 5]}

Articles(label, results) ==
    [i \in 1..Len(results) |->
        <<label, i, Get(results[i], "title", "No title"),
          Get(results[i], "href", "No URL"), Get(results[i], "body", "No summary")>>]

search_news_articles(topic, max_results, answer) ==
    IF ~answer.ok
    THEN Returned(PyStr(<<"Error searching for news: ">> \o str(answer.exc, "empty")))
    ELSE LET results == SubSeq(answer.found, 1, Min(Len(answer.found), max_results)) IN
         IF Len(results) > 0
         THEN Returned(PyStr(<<"Found ", Len(results), " recent news articles about '", topic, "':">>
                             \o Articles("**Article ", results)))
         ELSE Returned(PyStr(<<"No recent news found for '", topic,
                               "'. Try a different search term or check spelling.">>))

search_breaking_news(answer) ==
    IF ~answer.ok
    THEN Returned(PyStr(<<"Error searching for breaking news: ">> \o str(answer.exc, "empty")))
    ELSE LET results == SubSeq(answer.found, 1, Min(Len(answer.found), 5)) IN
         IF Len(results) > 0
         THEN Returned(PyStr(<<"**Breaking News - ">> \o Articles("**Breaking News ", results)))
         ELSE Returned(PyStr(<<"No breaking news found at the moment.">>))

\* ------------------------------------------------------------ music_tools
\* What the music agent and the download can do once the keys are there.
MusicOutcomes == {"import_error", "run_raises", "no_audio", "download_raises", "saved"}

generate_music(prompt, openai_api_key, models_lab_api_key, environ, outcome) ==
    LET openai_key == IF openai_api_key = "" THEN environ.OPENAI_API_KEY ELSE openai_api_key
        models_lab_key == IF models_lab_api_key = "" THEN environ.MODELSLAB_API_KEY
                          ELSE models_lab_api_key
    IN  IF openai_key = "" \/ models_lab_key = ""
        THEN Returned(PyStr(<<"Error: Missing API keys. To generate music, you need both OpenAI and ModelsLab API keys.">>))
        ELSE CASE outcome = "import_error" ->
                    Returned(PyStr(<<"Error: Required dependencies not installed. Please install:">>))
               [] outcome = "run_raises" ->
                    Returned(PyStr(<<"Error generating music: ", "agent run failed">>))
               [] outcome = "no_audio" ->
                    Returned(PyStr(<<"No audio was generated. Please try again with a different prompt.">>))
               [] outcome = "download_raises" ->
                    Returned(PyStr(<<"Error generating music: ", "Max retries exceeded">>))
               [] OTHER ->
                    Returned(PyStr(<<"Music generated successfully!", "**Prompt**: ", prompt,
                                     "**File saved**: ", "audio_generations/music_<uuid4>.mp3",
                                     "**Audio URL**: ", "https://modelslab.example/audio.mp3">>))

\* ----------------------------------------------------- data_analysis_tools
\* CSV text is its header line and its records, every field as written.
Header == <<"name", "age", "city">>

RawRows == {<<"John", "25", "NYC">>, <<"Jane", "NA", "LA">>}

EmptyCsv == [header |-> <<>>, records |-> <<>>]

RaggedCsv == [header |-> Header,
              records |-> <<<<"John", "25", "NYC">>, <<"Bob", "30", "SF", "x">>>>]

CsvTexts == {[header |-> Header, records |-> rs] : rs \in SeqsUpTo(RawRows, MaxRows)}
            \cup {EmptyCsv, RaggedCsv}

Digits == "0123456789"

DigitOf == [c \in {CharAt(Digits, i) : i \in 1..10} |->
               (CHOOSE i \in 1..10 : CharAt(Digits, i) = c) - 1]

IsDigit(c) == c \in DOMAIN DigitOf

DigitVal(c) == DigitOf[c]

IsNumber(s) == Len(s) > 0 /\ \A i \in 1..Len(s) : IsDigit(CharAt(s, i))

RECURSIVE int(_)
int(s) == IF Len(s) = 0 THEN 0
          ELSE 10 * int(SubSeq(s, 1, Len(s) - 1)) + DigitVal(CharAt(s, Len(s)))

\* The fields read_csv turns into NaN: its defaults that occur here and the
\* na_values the call adds.
NaValues == {"", "NaN", "null", "NA", "N/A", "missing"}

ParseCell(field) ==
    IF field \in NaValues THEN [kind |-> "na", num |-> 0, text |-> ""]
    ELSE IF IsNumber(field) THEN [kind |-> "num", num |-> int(field), text |-> field]
    ELSE [kind |-> "str", num |-> 0, text |-> field]

\* pd.read_csv(StringIO(data_content), ...)
read_csv(csv) ==
    IF csv.header = <<>>
    THEN Raises(Raised("EmptyDataError", <<"No columns to parse from file">>))
    ELSE IF \E i \in 1..Len(csv.records) : Len(csv.records[i]) > Len(csv.header)
    THEN Raises(Raised("ParserError", <<"Error tokenizing data. C error: Expected ",
                                        Len(csv.header), " fields">>))
    ELSE Returned([columns |-> csv.header,
                   rows |-> [i \in 1..Len(csv.records) |->
                                [j \in 1..Len(csv.header) |-> ParseCell(csv.records[i][j])]]])

len(df) == Len(df.rows)

ColIndex(df, col) == CHOOSE j \in 1..Len(df.columns) : df.columns[j] = col

\* A column is numeric when it has rows and no field of it is text.
IsNumericCol(df, j) ==
    /\ len(df) > 0
    /\ \A i \in 1..len(df) : df.rows[i][j].kind # "str"

dtype(df, j) ==
    IF ~IsNumericCol(df, j) THEN "object"
    ELSE IF \E i \in 1..len(df) : df.rows[i][j].kind = "na" THEN "float64" ELSE "int64"

\* df.select_dtypes(include=['number']).columns, as column indexes in order
numeric_cols(df) == SelectSeq([j \in 1..Len(df.columns) |-> j], LAMBDA j : IsNumericCol(df, j))

null_count(df, j) == Cardinality({i \in 1..len(df) : df.rows[i][j].kind = "na"})

\* df.isnull().sum().sum()
total_missing(df) ==
    Cardinality({<<i, j>> \in (1..len(df)) \X (1..Len(df.columns)) : df.rows[i][j].kind = "na"})

nunique(df, j) == Cardinality({df.rows[i][j].text : i \in {k \in 1..len(df) : df.rows[k][j].kind # "na"}})

head(df, n) == SubSeq(df.rows, 1, Min(n, len(df)))

\* re.findall(r'\d+', s): the first run of digits, "" when there is none
FirstDigits(s) ==
    IF \E i \in 1..Len(s) : IsDigit(CharAt(s, i))
    THEN LET b == CHOOSE i \in 1..Len(s) :
                      IsDigit(CharAt(s, i)) /\ \A k \in 1..(i - 1) : ~IsDigit(CharAt(s, k))
             e == CHOOSE j \in b..Len(s) :
                      /\ \A k \in b..j : IsDigit(CharAt(s, k))
                      /\ (j = Len(s) \/ ~IsDigit(CharAt(s, j + 1)))
         IN  SubSeq(s, b, e)
    ELSE ""

\* s.split(): the words between runs of blanks
RECURSIVE split(_)
split(s) ==
    IF Len(s) = 0 THEN <<>>
    ELSE IF CharAt(s, 1) = " " THEN split(SubSeq(s, 2, Len(s)))
    ELSE LET e == CHOOSE j \in 1..Len(s) :
                      /\ \A k \in 1..j : CharAt(s, k) # " "
                      /\ (j = Len(s) \/ CharAt(s, j + 1) = " ")
         IN  <<SubSeq(s, 1, e)>> \o split(SubSeq(s, e + 1, Len(s)))

\* The keyword lists of the branches, in the order the code tests them.
FirstKeywords == {"first", "rows", "head", "show"}
ColumnKeywords == {"columns", "column names", "data types"}
SummaryKeywords == {"summary", "statistics", "describe", "mean", "median", "std"}
MissingKeywords == {"missing", "null", "na"}
UniqueKeywords == {"unique", "distinct", "values"}
CorrelationKeywords == {"correlation", "correlate"}
GroupKeywords == {"group", "groupby", "count", "average", "mean"}
TopKeywordsMisspelt == {"tops", "highest", "maximum", "largest"}

TopKeywords == {"top", "highest", "maximum", "largest"}

\* df.nlargest(n, col): the rows that have a value in the column, largest
\* first, earlier row first among equals, then the rows without a value in
\* file order; the first n of them.
RECURSIVE SortDesc(_, _, _)
SortDesc(df, j, left) ==
    IF left = {} THEN <<>>
    ELSE LET best == CHOOSE i \in left :
                         \A k \in left : \/ df.rows[k][j].num < df.rows[i][j].num
                                         \/ (df.rows[k][j].num = df.rows[i][j].num /\ i <= k)
         IN  <<df.rows[best]>> \o SortDesc(df, j, left \ {best})

nlargest(df, n, j) ==
    LET valued == SortDesc(df, j, {i \in 1..len(df) : df.rows[i][j].kind = "num"})
        sorted == valued \o SelectSeq(df.rows, LAMBDA row : row[j].kind # "num")
    IN  SubSeq(sorted, 1, Min(n, Len(sorted)))

\* df.groupby(col): the keys are the values of the column, NaN left out
GroupKeys(df, j) == {df.rows[i][j].text : i \in {k \in 1..len(df) : df.rows[k][j].kind # "na"}}

GroupRows(df, j, key) == {i \in 1..len(df) : df.rows[i][j].kind # "na" /\ df.rows[i][j].text = key}

RECURSIVE SumOf(_, _, _)
SumOf(df, j, rows) ==
    IF rows = {} THEN 0
    ELSE LET i == CHOOSE r \in rows : TRUE
         IN  df.rows[i][j].num + SumOf(df, j, rows \ {i})

\* .size(): rows per group
GroupSize(df, j) == {<<key, Cardinality(GroupRows(df, j, key))>> : key \in GroupKeys(df, j)}

\* .count() and .mean() of column c per group: the values present and their sum
GroupStat(df, j, c) ==
    {LET present == {i \in GroupRows(df, j, key) : df.rows[i][c].kind # "na"}
     IN  <<key, df.columns[c], Cardinality(present), SumOf(df, c, present)>> :
     key \in GroupKeys(df, j)}

GroupMean(df, j, cols) == UNION {GroupStat(df, j, cols[k]) : k \in 1..Len(cols)}

FirstRowsBranch(df, user_query, query_lower) ==
    IF Contains("first", query_lower) \/ Contains("head", query_lower)
    THEN LET numbers == FirstDigits(user_query)
             num_rows == IF numbers # "" THEN Min(int(numbers), len(df)) ELSE 5
         IN  PyStr(<<"First ", num_rows, " rows of the data:", head(df, num_rows),
                     "**Data Shape**: ", len(df), Len(df.columns)>>)
    ELSE PyNone

GroupByBranch(df, user_query, query_lower, agg_drops_text) ==
    LET words == split(user_query)
        hits == {i \in 1..Len(words) :
                    /\ lower(words[i]) \in {"by", "group"}
                    /\ i + 1 <= Len(words)
                    /\ \E j \in 1..Len(df.columns) : df.columns[j] = words[i + 1]}
    IN  IF hits = {}
        THEN Returned(PyStr(<<"Could not identify grouping column. Please specify 'group by [column_name]'.">>))
        ELSE LET i == CHOOSE h \in hits : \A k \in hits : h <= k
                 group_col == words[i + 1]
                 j == ColIndex(df, group_col)
                 title == <<"Grouped Analysis by '", group_col, "':">>
             IN  IF AnyIn({"count", "sum"}, query_lower)
                 THEN Returned(PyStr(title \o <<"size", GroupSize(df, j)>>))
                 ELSE IF AnyIn({"mean", "average"}, query_lower)
                 THEN IF Len(numeric_cols(df)) > 0
                      THEN Returned(PyStr(title \o <<"mean", GroupMean(df, j, numeric_cols(df))>>))
                      ELSE Returned(PyStr(<<"No numeric columns found for averaging.">>))
                 \* .agg(['count', 'mean']): the mean of a text column is dropped
                 \* or raises TypeError, by the installed pandas
                 ELSE IF agg_drops_text
                         \/ \A c \in 1..Len(df.columns) : c = j \/ IsNumericCol(df, c)
                      THEN Returned(PyStr(title \o <<"count_mean",
                                                     GroupMean(df, j, numeric_cols(df))>>))
                      ELSE Raises(Raised("TypeError",
                                         <<"agg function failed [how->mean,dtype->object]">>))

TopBranch(df, user_query, query_lower) ==
    LET numbers == FirstDigits(user_query)
        n == IF numbers # "" THEN int(numbers) ELSE 10
        named == {j \in 1..Len(df.columns) : Contains(lower(df.columns[j]), query_lower)}
    IN  IF named # {}
        THEN LET j == CHOOSE c \in named : \A k \in named : c <= k
                 \* "df[col].dtype in ['number']": no dtype equals the text 'number'
                 result == IF dtype(df, j) \in {"number"} THEN nlargest(df, n, j) ELSE head(df, n)
             IN  PyStr(<<"Top ", n, " values by '", df.columns[j], "':", result>>)
        ELSE IF Len(numeric_cols(df)) > 0
        THEN PyStr(<<"Top ", n, " values by '", df.columns[numeric_cols(df)[1]], "':",
                     nlargest(df, n, numeric_cols(df)[1])>>)
        ELSE PyStr(<<"Top ", n, " rows:", head(df, n)>>)

Overview(df) ==
    PyStr(<<"Data Overview:", len(df), Len(df.columns), df.columns,
            [j \in 1..Len(df.columns) |-> dtype(df, j)], total_missing(df), head(df, 5),
            "**Try asking for:**">>)

BranchOrderUniqueFirst == <<"first", "columns", "summary", "unique", "missing",
                            "correlation", "group", "top">>

\* The order in which the if/elif chain tests the branches.
BranchOrder == <<"first", "columns", "summary", "missing", "unique", "correlation",
                 "group", "top">>

BranchKeywords == [first |-> FirstKeywords, columns |-> ColumnKeywords,
                   summary |-> SummaryKeywords, missing |-> MissingKeywords,
                   unique |-> UniqueKeywords, correlation |-> CorrelationKeywords,
                   group |-> GroupKeywords, top |-> TopKeywords]

\* The branch the chain enters: the first whose any(...) holds, else the "else".
Route(query_lower) ==
    LET hits == {i \in 1..Len(BranchOrder) :
                    AnyIn(BranchKeywords[BranchOrder[i]], query_lower)}
    IN  IF hits = {} THEN "overview"
        ELSE BranchOrder[CHOOSE i \in hits : \A k \in hits : i <= k]

\* The body of each branch, for a DataFrame that was read.
Dispatch(df, user_query, agg_drops_text) ==
    LET query_lower == lower(user_query)
        branch == Route(query_lower)
    IN  CASE branch = "first" ->
               Returned(FirstRowsBranch(df, user_query, query_lower))
          [] branch = "columns" ->
               Returned(PyStr(<<"Column Information:", Len(df.columns), len(df),
                                [j \in 1..Len(df.columns) |->
                                    <<df.columns[j], dtype(df, j), null_count(df, j)>>]>>))
          [] branch = "summary" ->
               IF Len(numeric_cols(df)) > 0
               THEN Returned(PyStr(<<"Summary Statistics for Numeric Columns:",
                                     [k \in 1..Len(numeric_cols(df)) |->
                                         df.columns[numeric_cols(df)[k]]],
                                     "describe">>))
               ELSE Returned(PyStr(<<"No numeric columns found in the dataset for statistical analysis.">>))
          [] branch = "missing" ->
               IF total_missing(df) > 0
               THEN Returned(PyStr(<<"Missing Values Analysis:",
                                     {<<df.columns[j], null_count(df, j)>> :
                                         j \in {c \in 1..Len(df.columns) : null_count(df, c) > 0}},
                                     "**Total Missing Values**: ", total_missing(df)>>))
               ELSE Returned(PyStr(<<"No missing values found in the dataset!">>))
          [] branch = "unique" ->
               Returned(PyStr(<<"Unique Values Count:",
                                [j \in 1..Len(df.columns) |-> <<df.columns[j], nunique(df, j)>>]>>))
          [] branch = "correlation" ->
               IF Len(numeric_cols(df)) > 1
               THEN Returned(PyStr(<<"Correlation Matrix:",
                                     [k \in 1..Len(numeric_cols(df)) |->
                                         df.columns[numeric_cols(df)[k]]],
                                     "corr">>))
               ELSE Returned(PyStr(<<"Need at least 2 numeric columns for correlation analysis.">>))
          [] branch = "group" ->
               GroupByBranch(df, user_query, query_lower, agg_drops_text)
          [] branch = "top" ->
               Returned(TopBranch(df, user_query, query_lower))
          [] OTHER ->
               Returned(Overview(df))

\* analyze_data_with_sql: read, dispatch, and "except Exception" around both.
analyze_data_with_sql(data_content, user_query, agg_drops_text) ==
    LET read == read_csv(data_content)
        outcome == IF read.ok THEN Dispatch(read.content, user_query, agg_drops_text) ELSE read
    IN  IF outcome.ok THEN outcome.content
        ELSE PyStr(<<"Error analyzing data: ">> \o str(outcome.exc, "empty"))

\* The queries: the examples the overview suggests, with a column of the
\* data for [column], a question without any keyword, and every text of up
\* to MaxQueryWords of these words.
ExampleQueries == {"Show me the first 10 rows",
                   "What are the column names and data types?",
                   "Calculate summary statistics",
                   "Find missing values",
                   "Show correlations between numeric columns",
                   "Group by city and calculate averages",
                   "Show top 5 values by age"}

QueryWords == {"Show", "first", "summary", "missing", "names", "top", "2"}

RECURSIVE join(_)
join(words) ==
    IF Len(words) = 0 THEN ""
    ELSE IF Len(words) = 1 THEN words[1]
    ELSE words[1] \o " " \o join(Tail(words))

PlainQueries == {"Tell me about this file"}

\* Queries that name a column of the data after "by"
ColumnQueries == {"Group by city", "Count by city", "Group by city and sum age",
                  "top 1 by age"}

Queries == ExampleQueries \cup PlainQueries \cup ColumnQueries
           \cup {join(ws) : ws \in SeqsUpTo(QueryWords, MaxQueryWords)}

\* analyze_data_with_sql on every input of the model, computed once
AnalysisOf ==
    [data_content \in CsvTexts |->
        [user_query \in Queries |->
            [agg_drops_text \in BOOLEAN |->
                analyze_data_with_sql(data_content, user_query, agg_drops_text)] @@ <<>>]
        @@ <<>>]
    @@ <<>>

\* ------------------------------------------------------------- web scrape
\* str.strip() of blanks and line ends
IsSpace(c) == c \in {" ", "\n", "\t"}

RECURSIVE lstrip(_)
lstrip(s) == IF Len(s) > 0 /\ IsSpace(CharAt(s, 1)) THEN lstrip(SubSeq(s, 2, Len(s))) ELSE s

RECURSIVE rstrip(_)
rstrip(s) == IF Len(s) > 0 /\ IsSpace(CharAt(s, Len(s)))
             THEN rstrip(SubSeq(s, 1, Len(s) - 1)) ELSE s

strip(s) == lstrip(rstrip(s))

\* s.split(sep) for a non-empty sep
RECURSIVE SplitSep(_, _)
SplitSep(s, sep) ==
    IF ~Contains(sep, s) THEN <<s>>
    ELSE LET at == CHOOSE i \in 1..(Len(s) - Len(sep) + 1) :
                       /\ SubSeq(s, i, i + Len(sep) - 1) = sep
                       /\ \A k \in 1..(i - 1) : SubSeq(s, k, k + Len(sep) - 1) # sep
         IN  <<SubSeq(s, 1, at - 1)>> \o SplitSep(SubSeq(s, at + Len(sep), Len(s)), sep)

RECURSIVE Flatten(_)
Flatten(ss) == IF Len(ss) = 0 THEN <<>> ELSE Head(ss) \o Flatten(Tail(ss))

\* lines 221-223: strip every line, split it at double blanks, strip the
\* phrases, join the non-empty ones with one blank
CleanText(text) ==
    LET lines == SplitSep(text, "\n")
        chunks == Flatten([i \in 1..Len(lines) |->
                      LET phrases == SplitSep(strip(lines[i]), "  ")
                      IN  [k \in 1..Len(phrases) |-> strip(phrases[k])]])
    IN  join(SelectSeq(chunks, LAMBDA c : c # ""))

\* A parsed page is the sequence of its elements, each on a line of its own.
Element(tag, text, href) == [tag |-> tag, text |-> text, href |-> href]

RECURSIVE Repeat(_, _)
Repeat(s, n) == IF n = 0 THEN "" ELSE s \o Repeat(s, n - 1)

ElementChoices == {Element("title", "Example Domain", FALSE),
                   Element("h1", " Heading ", FALSE),
                   Element("a", "More  information", TRUE),
                   Element("a", "anchor", FALSE),
                   Element("h4", "Minor", FALSE),
                   Element("script", "var title = 1;", FALSE)}

\* A page with more headings, links and text than the handler returns.
LongPage ==
    <<Element("title", "Long", FALSE)>>
    \o [i \in 1..6 |-> Element(IF i % 2 = 0 THEN "h2" ELSE "h3", "H" \o ToString(i), FALSE)]
    \o [i \in 1..11 |-> Element("a", "L" \o ToString(i), TRUE)]
    \o <<Element("p", Repeat("0123456789", 50), FALSE)>>

Pages == SeqsUpTo(ElementChoices, MaxElements) \cup {LongPage}

\* requests.get(...) and raise_for_status(): raises, or the page
FetchAnswers == {[ok |-> FALSE, exc |-> Raised("ConnectionError", <<"Max retries exceeded">>)],
                 [ok |-> FALSE, exc |-> Raised("HTTPError", <<"404 Client Error: Not Found">>)]}
                \cup {[ok |-> TRUE, page |-> pg] : pg \in Pages}

Urls == {"https://example.com"}

Prompts == {"title", "Title", "TITLE", "Get the page title and links", "headings",
            "HEADINGS then links", "links", "all links and headings", "heading",
            "summarize the text", ""}

\* "for script in soup(['script', 'style']): script.decompose()"
Decomposed(page) == SelectSeq(page, LAMBDA el : el.tag \notin {"script", "style"})

find_all(soup, tags) == SelectSeq(soup, LAMBDA el : el.tag \in tags)

get_text(soup) == Flatten([i \in 1..Len(soup) |-> <<soup[i].text, "\n">>])

PromptOrderLinksFirst == <<"title", "links", "headings">>

\* The order in which lines 228-238 test the prompt.
PromptOrder == <<"title", "headings", "links">>

PromptAsGiven(prompt) == prompt

\* "prompt_lower = request.prompt.lower()"
PromptLower(prompt) == lower(prompt)

\* The extraction the if/elif chain selects: the first keyword of
\* PromptOrder that the lower-cased prompt contains, else the excerpt.
Selected(prompt_lower) ==
    LET hits == {i \in 1..Len(PromptOrder) : Contains(PromptOrder[i], prompt_lower)}
    IN  IF hits = {} THEN "text"
        ELSE PromptOrder[CHOOSE i \in hits : \A k \in hits : i <= k]

ExtractUncut(page, prompt) ==
    LET soup == Decomposed(page)
        text == CleanText(concat(get_text(soup)))
        selected == Selected(PromptLower(prompt))
    IN  CASE selected = "title" ->
               LET titles == find_all(soup, {"title"})
               IN  PyStr(<<IF Len(titles) > 0 THEN titles[1].text ELSE "No title found">>)
          [] selected = "headings" ->
               LET headings == find_all(soup, {"h1", "h2", "h3"})
               IN  PyList([i \in 1..Len(headings) |-> strip(headings[i].text)])
          [] selected = "links" ->
               LET links == SelectSeq(find_all(soup, {"a"}), LAMBDA el : el.href)
               IN  PyList([i \in 1..Len(links) |-> strip(links[i].text)])
          [] OTHER -> PyStr(<<text>>)

\* Lines 214-238: what the handler extracts from a fetched page.
Extract(page, prompt) ==
    LET soup == Decomposed(page)
        text == CleanText(concat(get_text(soup)))
        selected == Selected(PromptLower(prompt))
    IN  CASE selected = "title" ->
               LET titles == find_all(soup, {"title"})
               IN  PyStr(<<IF Len(titles) > 0 THEN titles[1].text ELSE "No title found">>)
          [] selected = "headings" ->
               LET headings == find_all(soup, {"h1", "h2", "h3"})
               IN  PyList([i \in 1..Min(5, Len(headings)) |-> strip(headings[i].text)])
          [] selected = "links" ->
               LET links == SelectSeq(find_all(soup, {"a"}), LAMBDA el : el.href)
               IN  PyList([i \in 1..Min(10, Len(links)) |-> strip(links[i].text)])
          [] OTHER ->
               PyStr(<<IF Len(text) > 500 THEN SubSeq(text, 1, 500) \o "..." ELSE text>>)

scrape_body(url, prompt, answer) ==
    IF ~answer.ok
    THEN Raises(answer.exc)
    ELSE LET extracted == Extract(answer.page, prompt)
         IN  Returned([url |-> url, prompt |-> prompt, result |-> extracted])

\* ---------------------------------------------------------------- actions
\* The server is idle (no response pending) or holds the response of the
\* request it has just served.
Idle == response.status = 0

NoRequest == [endpoint |-> "", args |-> <<>>]

NoResponse == [status |-> 0, body |-> <<>>]

EnvFirst(request_key, env_key) == IF env_key # "" THEN env_key ELSE request_key

\* "request.key or os.getenv(NAME)"
KeyOr(request_key, env_key) == IF request_key # "" THEN request_key ELSE env_key

\* A call the handler made to a provider or a tool, and what came back.
Call(target, answer) == [target |-> target, answer |-> answer]

\* A call with the arguments the handler passed
CallWith(target, passed, answer) == [target |-> target, passed |-> passed, answer |-> answer]

\* A handler ends one request: the response and the calls it made.
Respond(endpoint, args, resp, made) ==
    /\ request' = [endpoint |-> endpoint, args |-> args]
    /\ response' = resp
    /\ calls' = made
    /\ UNCHANGED <<env, prev_failed, inflight>>

\* A handler that writes no file serves one request.
Serve(endpoint, args, resp, made) ==
    /\ Respond(endpoint, args, resp, made)
    /\ UNCHANGED files

\* A tool's text as the handler's content, under the request's echo field
ToolResult(field, value, tool) ==
    IF tool.ok
    THEN Returned([f \in {field, "result"} |-> IF f = "result" THEN tool.content ELSE value])
    ELSE Raises(tool.exc)

add_numbers ==
    /\ Idle
    /\ \E a \in Operands, b \in Operands, form \in StrForms :
        LET r == [operation |-> "add", a |-> a, b |-> b]
        IN  Serve("/api/math/add", r, HandlerBoundary(add_body(r), form), <<>>)

multiply_numbers ==
    /\ Idle
    /\ \E a \in Operands, b \in Operands, form \in StrForms :
        LET r == [operation |-> "multiply", a |-> a, b |-> b]
        IN  Serve("/api/math/multiply", r, HandlerBoundary(multiply_body(r), form), <<>>)

subtract_numbers ==
    /\ Idle
    /\ \E a \in Operands, b \in Operands, form \in StrForms :
        LET r == [operation |-> "subtract", a |-> a, b |-> b]
        IN  Serve("/api/math/subtract", r, HandlerBoundary(subtract_body(r), form), <<>>)

divide_numbers ==
    /\ Idle
    /\ \E a \in Operands, b \in Operands, form \in StrForms :
        LET r == [operation |-> "divide", a |-> a, b |-> b]
        IN  Serve("/api/math/divide", r, HandlerBoundary(divide_body(r), form), <<>>)

StockPriceRetries ==
    /\ Idle
    /\ \E symbol \in Symbols, answer \in TickerAnswers, again \in TickerAnswers :
        LET last == IF answer.ok THEN answer ELSE again
            made == IF answer.ok THEN <<Call("yfinance.Ticker.info", answer)>>
                    ELSE <<Call("yfinance.Ticker.info", answer),
                           Call("yfinance.Ticker.info", again)>>
            outcome == ToolResult("symbol", symbol, get_stock_price(symbol, last))
        IN  \E form \in StrForms :
                Serve("/api/finance/stock-price", [symbol |-> symbol],
                      HandlerBoundary(outcome, form), made)

get_stock_price_api ==
    /\ Idle
    /\ \E symbol \in Symbols, answer \in TickerAnswers :
        LET outcome == ToolResult("symbol", symbol, get_stock_price(symbol, answer))
        IN  \E form \in StrForms :
                Serve("/api/finance/stock-price", [symbol |-> symbol],
                      HandlerBoundary(outcome, form), <<Call("yfinance.Ticker.info", answer)>>)

get_stock_fundamentals_api ==
    /\ Idle
    /\ \E symbol \in Symbols, answer \in TickerAnswers :
        LET outcome == ToolResult("symbol", symbol, get_stock_fundamentals(symbol, answer))
        IN  \E form \in StrForms :
                Serve("/api/finance/stock-fundamentals", [symbol |-> symbol],
                      HandlerBoundary(outcome, form), <<Call("yfinance.Ticker.info", answer)>>)

get_crypto_price_api ==
    /\ Idle
    /\ \E symbol \in Symbols, answer \in TickerAnswers :
        LET outcome == ToolResult("symbol", symbol, get_crypto_price(symbol, answer))
        IN  \E form \in StrForms :
                Serve("/api/finance/crypto-price", [symbol |-> symbol],
                      HandlerBoundary(outcome, form), <<Call("yfinance.Ticker.info", answer)>>)

search_news_articles_api ==
    /\ Idle
    /\ \E topic \in Topics, mr \in MaxResultsChoices, answer \in SearchAnswers :
        LET max_results == IF mr.null \/ mr.n = 0 THEN 5 ELSE mr.n
            outcome == ToolResult("topic", topic,
                                  search_news_articles(topic, max_results, answer))
        IN  \E form \in StrForms :
                Serve("/api/news/search", [topic |-> topic, max_results |-> mr],
                      HandlerBoundary(outcome, form), <<Call("DDGS.text", answer)>>)

search_breaking_news_api ==
    /\ Idle
    /\ \E answer \in SearchAnswers :
        LET tool == search_breaking_news(answer)
            outcome == IF tool.ok THEN Returned([result |-> tool.content])
                       ELSE Raises(tool.exc)
        IN  \E form \in StrForms :
                Serve("/api/news/breaking", <<>>, HandlerBoundary(outcome, form),
                      <<Call("DDGS.text", answer)>>)

RequestKeys == {"", "sk-req"}

\* The directory audio_generations: the files in it are music_<uuid4>.mp3,
\* and uuid4() is a name no file has yet (here the next number).
uuid4(saved) == Cardinality(saved) + 1

\* open(filename, "wb") after a download: the file the tool writes
Written(outcome, saved) == IF outcome = "saved" THEN {uuid4(saved)} ELSE {}

MusicPrompts == {"calm piano"}

generate_music_api ==
    /\ Idle
    /\ \E prompt \in MusicPrompts, k1 \in RequestKeys, k2 \in RequestKeys,
          outcome \in MusicOutcomes, form \in StrForms :
        LET openai_key == KeyOr(k1, env.OPENAI_API_KEY)
            models_lab_key == KeyOr(k2, env.MODELSLAB_API_KEY)
            args == [prompt |-> prompt, openai_api_key |-> k1, models_lab_api_key |-> k2]
        IN  IF openai_key = "" \/ models_lab_key = ""
            THEN Serve("/api/music/generate", args,
                       HandlerBoundary(Raises(HTTPException(400,
                           <<"Both OpenAI and ModelsLab API keys are required for music generation">>)),
                           form),
                       <<>>)
            ELSE /\ outcome = "saved" => Cardinality(files) < MaxFiles
                 /\ Respond("/api/music/generate", args,
                            HandlerBoundary(ToolResult("prompt", prompt,
                                generate_music(prompt, openai_key, models_lab_key, env, outcome)),
                                form),
                            <<CallWith("generate_music",
                                       <<prompt, openai_key, models_lab_key>>, outcome)>>)
                 /\ files' = files \cup Written(outcome, files)

AnalyzesWithoutKey ==
    /\ Idle
    /\ \E data_content \in CsvTexts, user_query \in Queries, k \in RequestKeys,
          agg_drops_text \in BOOLEAN :
        LET result == AnalysisOf[data_content][user_query][agg_drops_text]
        IN  Serve("/api/data/analyze",
                  [data_content |-> data_content, user_query |-> user_query,
                   openai_api_key |-> k],
                  HandlerBoundary(Returned(
                      [data_content |-> <<data_content, "...">>,
                       query |-> user_query,
                       result |-> result]), "empty"),
                  <<Call("analyze_data_with_sql", result)>>)

analyze_data_api ==
    /\ Idle
    /\ \E data_content \in CsvTexts, user_query \in Queries, k \in RequestKeys :
        LET openai_key == KeyOr(k, env.OPENAI_API_KEY)
            args == [data_content |-> data_content, user_query |-> user_query,
                     openai_api_key |-> k]
        IN  IF openai_key = ""
            THEN \E form \in StrForms :
                    Serve("/api/data/analyze", args,
                          HandlerBoundary(Raises(HTTPException(400,
                              <<"OpenAI API key is required for data analysis">>)), form),
                          <<>>)
            ELSE \E agg_drops_text \in BOOLEAN :
                    LET result == AnalysisOf[data_content][user_query][agg_drops_text]
                    IN  Serve("/api/data/analyze", args,
                              HandlerBoundary(Returned(
                                  [data_content |-> <<data_content, "...">>,
                                   query |-> user_query,
                                   result |-> result]), "empty"),
                              <<Call("analyze_data_with_sql", result)>>)

scrape_website ==
    /\ Idle
    /\ \E url \in Urls, prompt \in Prompts, answer \in FetchAnswers :
        LET outcome == scrape_body(url, prompt, answer)
        IN  \E form \in StrForms :
                Serve("/api/web/scrape", [url |-> url, prompt |-> prompt],
                      HandlerBoundary(outcome, form), <<Call("requests.get", answer)>>)

HealthFollowsUpstream ==
    /\ Idle
    /\ Serve("/api/health", <<>>,
             [status |-> 200,
              body |-> [HealthPayload EXCEPT !.status =
                           IF prev_failed THEN "degraded" ELSE "healthy"]], <<>>)

health_check ==
    /\ Idle
    /\ Serve("/api/health", <<>>, [status |-> 200, body |-> HealthPayload], <<>>)

\* The framework sends the response; the server is ready for the next request.
send_response ==
    /\ ~Idle
    /\ prev_failed' = (response.status # 200)
    /\ request' = NoRequest
    /\ response' = NoResponse
    /\ calls' = <<>>
    /\ UNCHANGED <<env, files, inflight>>

Init ==
    /\ env \in Environ
    /\ files = {}
    /\ inflight = <<>>
    /\ prev_failed = FALSE
    /\ request = NoRequest
    /\ response = NoResponse
    /\ calls = <<>>

Next ==
    \/ add_numbers
    \/ multiply_numbers
    \/ subtract_numbers
    \/ divide_numbers
    \/ get_stock_price_api
    \/ get_stock_fundamentals_api
    \/ get_crypto_price_api
    \/ search_news_articles_api
    \/ search_breaking_news_api
    \/ generate_music_api
    \/ analyze_data_api
    \/ scrape_website
    \/ health_check
    \/ send_response

Spec == Init /\ [][Next]_vars

\* ------------------------------------------------- requests served together
\* The framework may have several requests in service at once.  ConcSpec
\* follows up to MaxInflight of them, each through the steps of its handler
\* that touch something outside the handler's own frame: reading the
\* environment for the keys, calling the tool or the provider (the music
\* tool writes its file there), and handing back the response.  The steps
\* of different requests interleave in every order, which is more than an
\* event loop allows between the lines of an "async def" without "await".
Rids == 1..MaxInflight

KeyedEndpoints == {"/api/music/generate", "/api/data/analyze"}

ConcCsv == [header |-> Header, records |-> <<<<"John", "25", "NYC">>>>]

\* The requests that arrive: one or two inputs for a handler of each kind
\* (arithmetic, lookup, scrape, health, and the two that need keys)
ConcRequests ==
    {[endpoint |-> "/api/math/divide", args |-> [operation |-> "divide", a |-> 3, b |-> 0]],
     [endpoint |-> "/api/finance/stock-price", args |-> [symbol |-> "AAPL"]],
     [endpoint |-> "/api/web/scrape", args |-> [url |-> "https://example.com", prompt |-> "title"]],
     [endpoint |-> "/api/health", args |-> <<>>]}
    \cup {[endpoint |-> "/api/music/generate",
           args |-> [prompt |-> "calm piano", openai_api_key |-> k, models_lab_api_key |-> k]] :
          k \in RequestKeys}
    \cup {[endpoint |-> "/api/data/analyze",
           args |-> [data_content |-> ConcCsv, user_query |-> "Find missing values",
                     openai_api_key |-> k]] :
          k \in RequestKeys}

\* What the provider or the tool of the endpoint can answer
ConcAnswers(endpoint) ==
    CASE endpoint = "/api/finance/stock-price" ->
            {a \in TickerAnswers :
                IF a.ok THEN a.info = MkInfo("positive", VariedFields \cup OtherFields)
                ELSE a.exc.type = "ConnectionError"}
      [] endpoint = "/api/web/scrape" ->
            {a \in FetchAnswers : IF a.ok THEN a.page = <<>> ELSE a.exc.type = "HTTPError"}
      [] endpoint = "/api/music/generate" ->
            {[ok |-> TRUE, outcome |-> o] : o \in {"saved", "no_audio"}}
      [] OTHER -> {[ok |-> TRUE]}

\* The body of a handler that reads no key, up to its boundary
Handle(endpoint, args, answer, form) ==
    CASE endpoint = "/api/math/divide" -> HandlerBoundary(divide_body(args), form)
      [] endpoint = "/api/finance/stock-price" ->
            HandlerBoundary(ToolResult("symbol", args.symbol,
                                       get_stock_price(args.symbol, answer)), form)
      [] endpoint = "/api/web/scrape" ->
            HandlerBoundary(scrape_body(args.url, args.prompt, answer), form)
      [] endpoint = "/api/health" -> [status |-> 200, body |-> HealthPayload]

\* "request.key or os.getenv(NAME)" for the keys the endpoint needs
ResolveKeys(endpoint, args, environ) ==
    IF endpoint = "/api/music/generate"
    THEN <<KeyOr(args.openai_api_key, environ.OPENAI_API_KEY),
           KeyOr(args.models_lab_api_key, environ.MODELSLAB_API_KEY)>>
    ELSE <<KeyOr(args.openai_api_key, environ.OPENAI_API_KEY)>>

MissingKeys(endpoint) ==
    IF endpoint = "/api/music/generate"
    THEN HTTPException(400, <<"Both OpenAI and ModelsLab API keys are required for music generation">>)
    ELSE HTTPException(400, <<"OpenAI API key is required for data analysis">>)

\* The rest of a handler that has its keys: the tool call and the response.
\* generate_music looks at the environment again for a key it was not given.
RunTool(endpoint, args, keys, answer, form, environ) ==
    IF endpoint = "/api/music/generate"
    THEN HandlerBoundary(ToolResult("prompt", args.prompt,
                                    generate_music(args.prompt, keys[1], keys[2], environ,
                                                   answer.outcome)), form)
    ELSE HandlerBoundary(Returned([data_content |-> <<args.data_content, "...">>,
                                   query |-> args.user_query,
                                   result |-> analyze_data_with_sql(args.data_content,
                                                                    args.user_query, TRUE)]),
                         form)

InService(r) == r \in DOMAIN inflight

At(r, pc) == InService(r) /\ inflight[r].pc = pc

Put(r, slot) == inflight' = [x \in DOMAIN inflight \cup {r} |-> IF x = r THEN slot ELSE inflight[x]]

Sequential == <<prev_failed, request, response, calls>>

\* The framework routes a request to its handler.
conc_accept ==
    /\ \E r \in Rids \ DOMAIN inflight, req \in ConcRequests :
          Put(r, [endpoint |-> req.endpoint, args |-> req.args, pc |-> "start",
                  arrived |-> env, keys |-> <<>>, answer |-> [ok |-> TRUE],
                  response |-> NoResponse])
    /\ UNCHANGED <<env, files, Sequential>>

\* A handler without keys runs: the provider answers and the body ends.
conc_handle ==
    /\ \E r \in Rids :
          /\ At(r, "start")
          /\ inflight[r].endpoint \notin KeyedEndpoints
          /\ \E answer \in ConcAnswers(inflight[r].endpoint), form \in StrForms :
                Put(r, [inflight[r] EXCEPT
                           !.pc = "done", !.answer = answer,
                           !.response = Handle(inflight[r].endpoint, inflight[r].args,
                                               answer, form)])
    /\ UNCHANGED <<env, files, Sequential>>

\* The music and data handlers read their keys; without them they raise.
conc_resolve_keys ==
    /\ \E r \in Rids :
          /\ At(r, "start")
          /\ inflight[r].endpoint \in KeyedEndpoints
          /\ LET keys == ResolveKeys(inflight[r].endpoint, inflight[r].args, env)
             IN  IF \E i \in 1..Len(keys) : keys[i] = ""
                 THEN \E form \in StrForms :
                         Put(r, [inflight[r] EXCEPT
                                    !.pc = "done", !.keys = keys,
                                    !.response = HandlerBoundary(
                                        Raises(MissingKeys(inflight[r].endpoint)), form)])
                 ELSE Put(r, [inflight[r] EXCEPT !.pc = "resolved", !.keys = keys])
    /\ UNCHANGED <<env, files, Sequential>>

\* The handler that has its keys calls its tool and builds the response;
\* the music tool saves the audio it got.
ExportsKeys ==
    /\ \E r \in Rids :
          /\ At(r, "resolved")
          /\ \E answer \in ConcAnswers(inflight[r].endpoint) :
                LET written == IF inflight[r].endpoint = "/api/music/generate"
                               THEN Written(answer.outcome, files) ELSE {}
                IN  /\ written # {} => Cardinality(files) < MaxFiles
                    /\ Put(r, [inflight[r] EXCEPT
                                  !.pc = "done", !.answer = answer,
                                  !.response = RunTool(inflight[r].endpoint, inflight[r].args,
                                                       inflight[r].keys, answer, "empty", env)])
                    /\ files' = files \cup written
          /\ env' = [env EXCEPT !.OPENAI_API_KEY = inflight[r].keys[1]]
    /\ UNCHANGED <<Sequential>>

conc_run_tool ==
    /\ \E r \in Rids :
          /\ At(r, "resolved")
          /\ \E answer \in ConcAnswers(inflight[r].endpoint) :
                LET written == IF inflight[r].endpoint = "/api/music/generate"
                               THEN Written(answer.outcome, files) ELSE {}
                IN  /\ written # {} => Cardinality(files) < MaxFiles
                    /\ Put(r, [inflight[r] EXCEPT
                                  !.pc = "done", !.answer = answer,
                                  !.response = RunTool(inflight[r].endpoint, inflight[r].args,
                                                       inflight[r].keys, answer, "empty", env)])
                    /\ files' = files \cup written
    /\ UNCHANGED <<env, Sequential>>

\* The framework sends the response of a handler that has ended.
conc_send ==
    /\ \E r \in Rids :
          /\ At(r, "done")
          /\ inflight' = [x \in DOMAIN inflight \ {r} |-> inflight[x]]
    /\ UNCHANGED <<env, files, Sequential>>

ConcNext ==
    \/ conc_accept
    \/ conc_handle
    \/ conc_resolve_keys
    \/ conc_run_tool
    \/ conc_send

ConcSpec == Init /\ [][ConcNext]_vars

\* ================================================================ claims
Served(endpoint) == ~Idle /\ request.endpoint = endpoint

Answer == calls[1].answer

\* ----------------------------------------------------------------------
\* C1: for every pair of operands the add, subtract and multiply endpoints
\* answer 200 with result a+b, a-b and a*b, and echo the inputs [a, b] in
\* the order given.
C1_Arithmetic ==
    /\ Served("/api/math/add") =>
          /\ response.status = 200
          /\ response.body.result = request.args.a + request.args.b
          /\ response.body.inputs = <<request.args.a, request.args.b>>
    /\ Served("/api/math/subtract") =>
          /\ response.status = 200
          /\ response.body.result = request.args.a - request.args.b
          /\ response.body.inputs = <<request.args.a, request.args.b>>
    /\ Served("/api/math/multiply") =>
          /\ response.status = 200
          /\ response.body.result = request.args.a * request.args.b
          /\ response.body.inputs = <<request.args.a, request.args.b>>

C1_Witness ==
    /\ Served("/api/math/subtract")
    /\ request.args.a = 20 /\ request.args.b = 8
    /\ response.status = 200 /\ response.body.result = 12
    /\ response.body.inputs = <<20, 8>>

\* ----------------------------------------------------------------------
\* C2: the divide endpoint answers 400 without a result field exactly when
\* the divisor is zero; for every other divisor it answers 200 with the
\* quotient a/b (in lowest terms, so divide(15,3) is 5).
C2_DivideByZero ==
    Served("/api/math/divide") =>
        /\ (request.args.b = 0) <=>
               (response.status = 400 /\ "result" \notin DOMAIN response.body)
        /\ request.args.b # 0 =>
               /\ response.status = 200
               /\ response.body.result.den > 0
               /\ response.body.result.num * request.args.b
                      = request.args.a * response.body.result.den
               /\ Gcd(Abs(response.body.result.num), response.body.result.den) = 1

C2_Witness ==
    /\ Served("/api/math/divide")
    /\ request.args.a = 15 /\ request.args.b = 0
    /\ response.status = 400
    /\ DOMAIN response.body = {"detail"}

\* ----------------------------------------------------------------------
AnalysisReturned ==
    /\ Served("/api/data/analyze")
    /\ response.status = 200
    /\ read_csv(request.args.data_content).ok

AnalysisResult == response.body.result

LeadsWith(result, texts) == result.type = "str" /\ result.value[1] \in texts

IsMissingBranch(result) ==
    LeadsWith(result, {"Missing Values Analysis:", "No missing values found in the dataset!"})

\* C3 as stated: every query that contains "missing" gets the missing-value
\* report or the 'no missing values' message, whatever else it contains.
C3_AnyMissingQuery ==
    (AnalysisReturned /\ Contains("missing", lower(request.args.user_query)))
        => IsMissingBranch(AnalysisResult)

C3_EarlierKeywords == {"first", "rows", "head", "show",
                       "columns", "column names", "data types",
                       "summary", "statistics", "describe", "mean", "median", "std"}

\* C3 as amended: for data that parses, every query that contains "missing"
\* and none of the keywords of the three branches tested before it gets the
\* missing-value report or the 'no missing values' message, whatever words
\* of later branches it contains.
C3_MissingUnlessEarlier ==
    (/\ AnalysisReturned
     /\ Contains("missing", lower(request.args.user_query))
     /\ ~AnyIn(C3_EarlierKeywords, lower(request.args.user_query)))
        => IsMissingBranch(AnalysisResult)

C3_Witness ==
    /\ AnalysisReturned
    /\ request.args.user_query = "missing top"
    /\ total_missing(read_csv(request.args.data_content).content) > 0
    /\ AnalysisResult.value[1] = "Missing Values Analysis:"

\* ----------------------------------------------------------------------
C4_CannedOutputs == {"First ", "Column Information:",
                     "Summary Statistics for Numeric Columns:",
                     "No numeric columns found in the dataset for statistical analysis.",
                     "Missing Values Analysis:", "No missing values found in the dataset!",
                     "Unique Values Count:", "Correlation Matrix:",
                     "Need at least 2 numeric columns for correlation analysis.",
                     "Grouped Analysis by '", "No numeric columns found for averaging.",
                     "Could not identify grouping column. Please specify 'group by [column_name]'.",
                     "Top "}

\* C4: for every CSV that parses and every query the analysis returns a
\* text: the output of one of the eight operations, the overview, or an
\* error-prefixed text; never None.
C4_AlwaysText ==
    AnalysisReturned =>
        LeadsWith(AnalysisResult,
                  C4_CannedOutputs \cup {"Data Overview:", "Error analyzing data: "})

\* ----------------------------------------------------------------------
C5_Keywords == {"first", "rows", "head", "show",
                "columns", "column names", "data types",
                "summary", "statistics", "describe", "mean", "median", "std",
                "missing", "null", "na",
                "unique", "distinct", "values",
                "correlation", "correlate",
                "group", "groupby", "count", "average",
                "top", "highest", "maximum", "largest"}

\* C5: for data that parses, the generic overview is returned exactly for
\* the queries that contain none of the keywords of the eight branches.
C5_OverviewIffNoKeyword ==
    AnalysisReturned =>
        (LeadsWith(AnalysisResult, {"Data Overview:"})
            <=> ~AnyIn(C5_Keywords, lower(request.args.user_query)))

C5_Witness ==
    /\ AnalysisReturned
    /\ request.args.user_query = "Tell me about this file"
    /\ AnalysisResult.value[1] = "Data Overview:"

\* ----------------------------------------------------------------------
ScrapeReturned == Served("/api/web/scrape") /\ response.status = 200

HasTitleTag(page) == \E i \in 1..Len(page) : page[i].tag = "title"

TitleText(page) ==
    page[CHOOSE i \in 1..Len(page) :
            page[i].tag = "title" /\ \A k \in 1..(i - 1) : page[k].tag # "title"].text

\* C6: a prompt that contains "title" in any letter case, on a page that
\* was fetched, gets exactly the text of the page's title tag, or
\* 'No title found' when the page has none.
C6_TitleOrSentinel ==
    (ScrapeReturned /\ Contains("title", lower(request.args.prompt))) =>
        response.body.result =
            PyStr(<<IF HasTitleTag(Answer.page) THEN TitleText(Answer.page)
                    ELSE "No title found">>)

C6_Witness ==
    /\ ScrapeReturned
    /\ request.args.prompt = "TITLE"
    /\ HasTitleTag(Answer.page)
    /\ response.body.result.value = <<"Example Domain">>

\* ----------------------------------------------------------------------
C7_Headings(page) ==
    LET hs == SelectSeq(page, LAMBDA el : el.tag \in {"h1", "h2", "h3"})
    IN  PyList([i \in 1..Min(5, Len(hs)) |-> strip(hs[i].text)])

C7_Links(page) ==
    LET ls == SelectSeq(page, LAMBDA el : el.tag = "a" /\ el.href)
    IN  PyList([i \in 1..Min(10, Len(ls)) |-> strip(ls[i].text)])

C7_Title(page) ==
    PyStr(<<IF HasTitleTag(page) THEN TitleText(page) ELSE "No title found">>)

C7_Excerpt(page) ==
    LET text == CleanText(concat(get_text(Decomposed(page))))
    IN  PyStr(<<IF Len(text) > 500 THEN SubSeq(text, 1, 500) \o "..." ELSE text>>)

\* C7: one extraction per request, by precedence over the lower-cased
\* prompt: the title if it contains 'title', else the headings if it
\* contains 'headings', else the links if it contains 'links', and the
\* text excerpt only if it contains none of the three.
C7_Precedence ==
    ScrapeReturned =>
        LET p == lower(request.args.prompt)
            result == response.body.result
        IN  IF Contains("title", p) THEN result = C7_Title(Answer.page)
            ELSE IF Contains("headings", p) THEN result = C7_Headings(Answer.page)
            ELSE IF Contains("links", p) THEN result = C7_Links(Answer.page)
            ELSE result = C7_Excerpt(Answer.page)

C7_Witness ==
    /\ ScrapeReturned
    /\ request.args.prompt = "all links and headings"
    /\ Answer.page = LongPage
    /\ response.body.result = PyList(<<"H1", "H2", "H3", "H4", "H5">>)

\* ----------------------------------------------------------------------
\* C8: whatever was served before, and whatever the environment holds, the
\* health check answers status 'healthy', version '1.0.0' and the same six
\* services.
C8_HealthFixed ==
    Served("/api/health") =>
        response = [status |-> 200,
                    body |-> [status |-> "healthy", version |-> "1.0.0",
                              services |-> <<"math", "finance", "news", "music",
                                             "data_analysis", "web_scraping">>]]

C8_Witness ==
    /\ Served("/api/health")
    /\ prev_failed
    /\ env.OPENAI_API_KEY = "" /\ env.MODELSLAB_API_KEY = ""
    /\ response.body.status = "healthy"

\* ----------------------------------------------------------------------
\* The exception the body of the served handler raised, if it raised one.
C9_RaisedInBody ==
    IF Served("/api/web/scrape") /\ ~Answer.ok THEN {Answer.exc}
    ELSE IF Served("/api/math/divide") /\ request.args.b = 0
    THEN {HTTPException(400, <<"Cannot divide by zero">>)}
    ELSE IF /\ Served("/api/music/generate")
            /\ \/ KeyOr(request.args.openai_api_key, env.OPENAI_API_KEY) = ""
               \/ KeyOr(request.args.models_lab_api_key, env.MODELSLAB_API_KEY) = ""
    THEN {HTTPException(400, <<"Both OpenAI and ModelsLab API keys are required for music generation">>)}
    ELSE IF /\ Served("/api/data/analyze")
            /\ KeyOr(request.args.openai_api_key, env.OPENAI_API_KEY) = ""
    THEN {HTTPException(400, <<"OpenAI API key is required for data analysis">>)}
    ELSE {}

\* C9: every POST handler ends a request with a success response, or with
\* an HTTP 400 whose detail is the string form of the exception its body
\* raised; nothing raised in a body leaves with another status.
C9_SuccessOr400 ==
    (~Idle /\ request.endpoint # "/api/health") =>
        \/ /\ response.status = 200
           /\ "detail" \notin DOMAIN response.body
           /\ C9_RaisedInBody = {}
        \/ /\ response.status = 400
           /\ DOMAIN response.body = {"detail"}
           /\ \E e \in C9_RaisedInBody, form \in StrForms :
                  response.body.detail = str(e, form)

C9_Witness ==
    /\ Served("/api/web/scrape")
    /\ ~Answer.ok /\ Answer.exc.type = "HTTPError"
    /\ response.status = 400
    /\ response.body.detail = <<"404 Client Error: Not Found">>

\* ----------------------------------------------------------------------
LookupEndpoints == {"/api/finance/stock-price", "/api/finance/stock-fundamentals",
                    "/api/finance/crypto-price", "/api/news/search", "/api/news/breaking"}

EndsWith(pieces, tail) ==
    /\ Len(pieces) >= Len(tail)
    /\ SubSeq(pieces, Len(pieces) - Len(tail) + 1, Len(pieces)) = tail

\* C10: the lookup endpoints always answer 200 with a text in result; when
\* the provider call failed, that text starts with "Error" and ends with the
\* provider's message, and no 400 is sent.
C10_LookupErrorsAreResults ==
    (~Idle /\ request.endpoint \in LookupEndpoints) =>
        /\ response.status = 200
        /\ response.body.result.type = "str"
        /\ ~Answer.ok =>
              /\ startswith(response.body.result.value[1], "Error")
              /\ EndsWith(response.body.result.value, Answer.exc.msg)

C10_Witness ==
    /\ Served("/api/finance/stock-price")
    /\ ~Answer.ok
    /\ response.status = 200
    /\ response.body.result.value[1] = "Error retrieving stock price for "

\* ----------------------------------------------------------------------
ProviderOf(endpoint) ==
    IF endpoint \in {"/api/news/search", "/api/news/breaking"} THEN "DDGS.text"
    ELSE "yfinance.Ticker.info"

\* C11: while a lookup request is being answered, the provider of its
\* endpoint has been called exactly once, whether the call succeeded or
\* failed: the calls of the request are that one call and nothing else.
C11_OneProviderCall ==
    (~Idle /\ request.endpoint \in LookupEndpoints) =>
        /\ Len(calls) = 1
        /\ calls[1].target = ProviderOf(request.endpoint)
        /\ Cardinality({i \in 1..Len(calls) : ~calls[i].answer.ok}) <= 1

C11_Witness ==
    /\ Served("/api/news/search")
    /\ Len(calls) = 1
    /\ ~calls[1].answer.ok
    /\ calls[1].answer.exc.type = "ConnectionError"
    /\ startswith(response.body.result.value[1], "Error")

\* ----------------------------------------------------------------------
\* The responses the request of a slot can get when it is served alone,
\* with the environment as it was when the request arrived and the same
\* answers (one response for each string form of a raised HTTPException).
ServedAlone(slot) ==
    {IF slot.endpoint \in KeyedEndpoints
     THEN LET keys == ResolveKeys(slot.endpoint, slot.args, slot.arrived)
          IN  IF \E i \in 1..Len(keys) : keys[i] = ""
              THEN HandlerBoundary(Raises(MissingKeys(slot.endpoint)), form)
              ELSE RunTool(slot.endpoint, slot.args, keys, slot.answer, form, slot.arrived)
     ELSE Handle(slot.endpoint, slot.args, slot.answer, form) : form \in StrForms}

\* C12: however the steps of the requests in service interleave, the
\* environment every one of them reads is the one it arrived under, the
\* keys a handler holds are the ones it resolves alone, and the response of
\* a handler that has ended is the response of the same request served
\* alone with the same answers.
C12_ServedAsAlone ==
    \A r \in DOMAIN inflight :
        /\ inflight[r].arrived = env
        /\ inflight[r].pc = "resolved" =>
              inflight[r].keys = ResolveKeys(inflight[r].endpoint, inflight[r].args,
                                             inflight[r].arrived)
        /\ inflight[r].pc = "done" => inflight[r].response \in ServedAlone(inflight[r])

\* Two requests in service at once: one has saved its audio and ended,
\* the other, refused for its missing keys, is still to be sent.
C12_Witness ==
    \E r \in DOMAIN inflight, q \in DOMAIN inflight :
        /\ r # q
        /\ inflight[r].endpoint = "/api/music/generate"
        /\ inflight[r].pc = "done"
        /\ inflight[r].response.status = 200
        /\ inflight[r].answer.outcome = "saved"
        /\ files # {}
        /\ inflight[q].endpoint = "/api/music/generate"
        /\ inflight[q].pc = "done"
        /\ inflight[q].response.status = 400

\* ----------------------------------------------------------------------
\* C13: the music endpoint takes each key from the request when the request
\* has a non-empty one and from the environment otherwise; when either key
\* is missing it answers 400 without calling the music tool, and when both
\* are there it calls the tool once, with exactly these two keys.
C13_MusicKeys ==
    Served("/api/music/generate") =>
        LET openai == IF request.args.openai_api_key # "" THEN request.args.openai_api_key
                      ELSE env.OPENAI_API_KEY
            models_lab == IF request.args.models_lab_api_key # ""
                          THEN request.args.models_lab_api_key
                          ELSE env.MODELSLAB_API_KEY
        IN  IF openai = "" \/ models_lab = ""
            THEN response.status = 400 /\ calls = <<>>
            ELSE /\ Len(calls) = 1
                 /\ calls[1].target = "generate_music"
                 /\ calls[1].passed = <<request.args.prompt, openai, models_lab>>

C13_Witness ==
    /\ Served("/api/music/generate")
    /\ request.args.openai_api_key = "" /\ env.OPENAI_API_KEY = "sk-env"
    /\ request.args.models_lab_api_key = "" /\ env.MODELSLAB_API_KEY = ""
    /\ response.status = 400
    /\ calls = <<>>

\* ----------------------------------------------------------------------
\* C14: for every data content and query, the data analysis endpoint calls
\* the analysis function (once) exactly when the request or, failing that,
\* the environment has an OpenAI key; with no key from either it answers
\* 400 and the function is not called.
C14_AnalysisNeedsKey ==
    Served("/api/data/analyze") =>
        IF request.args.openai_api_key = "" /\ env.OPENAI_API_KEY = ""
        THEN response.status = 400 /\ calls = <<>>
        ELSE /\ Len(calls) = 1
             /\ calls[1].target = "analyze_data_with_sql"
             /\ response.status = 200
             /\ response.body.result = calls[1].answer

C14_Witness ==
    /\ Served("/api/data/analyze")
    /\ request.args.openai_api_key = "" /\ env.OPENAI_API_KEY = ""
    /\ request.args.user_query = "Find missing values"
    /\ read_csv(request.args.data_content).ok
    /\ response.status = 400
    /\ calls = <<>>

\* ----------------------------------------------------------------------
\* The detail texts of the HTTP 400 errors the handlers raise on purpose.
C15_Deliberate ==
    {e.detail : e \in {x \in C9_RaisedInBody : x.type = "HTTPException"}}

\* C15: a 400 that a handler raises on purpose (divide by zero, missing
\* music keys, missing data-analysis key) reaches the client with exactly
\* the detail text it was raised with.
C15_DetailAsRaised ==
    (~Idle /\ C15_Deliberate # {}) =>
        /\ response.status = 400
        /\ response.body.detail \in C15_Deliberate

\* ----------------------------------------------------------------------
\* The first texts of the operation each example of the overview names.
C16_Expected ==
    [q \in ExampleQueries |->
        CASE q = "Show me the first 10 rows" -> {"First "}
          [] q = "What are the column names and data types?" -> {"Column Information:"}
          [] q = "Calculate summary statistics" ->
                {"Summary Statistics for Numeric Columns:",
                 "No numeric columns found in the dataset for statistical analysis."}
          [] q = "Find missing values" ->
                {"Missing Values Analysis:", "No missing values found in the dataset!"}
          [] q = "Show correlations between numeric columns" ->
                {"Correlation Matrix:",
                 "Need at least 2 numeric columns for correlation analysis."}
          [] q = "Group by city and calculate averages" ->
                {"Grouped Analysis by '", "No numeric columns found for averaging."}
          [] q = "Show top 5 values by age" -> {"Top "}]

\* C16: for data that parses, each of the seven queries the overview
\* suggests (with a column of the data for [column]) gets the output of the
\* operation it names.
C16_ExamplesRouted ==
    (AnalysisReturned /\ request.args.user_query \in ExampleQueries) =>
        LeadsWith(AnalysisResult, C16_Expected[request.args.user_query])

\* ----------------------------------------------------------------------
\* The first-N branch answered: the query has "first" or "head".
C17_FirstRows ==
    /\ AnalysisReturned
    /\ AnyIn({"first", "head"}, lower(request.args.user_query))
    /\ LeadsWith(AnalysisResult, {"First "})

\* C17: in the first-N branch the N of the header is the number of rows
\* shown, is at most the number of rows of the data, and is the first
\* integer of the query (5 without one), as far as the data has rows.
C17_HeaderCountsRows ==
    C17_FirstRows =>
        LET df == read_csv(request.args.data_content).content
            numbers == FirstDigits(request.args.user_query)
            asked == IF numbers = "" THEN 5 ELSE int(numbers)
            N == AnalysisResult.value[2]
            shown == AnalysisResult.value[4]
        IN  /\ N = Len(shown)
            /\ N <= len(df)
            /\ N = Min(asked, len(df))

\* ----------------------------------------------------------------------
C18_GroupKeywords == {"group", "groupby", "count", "average", "mean"}

C18_EarlierKeywords == {"first", "rows", "head", "show",
                        "columns", "column names", "data types",
                        "summary", "statistics", "describe", "mean", "median", "std",
                        "missing", "null", "na",
                        "unique", "distinct", "values",
                        "correlation", "correlate"}

\* The columns that follow the word "by" in the query
C18_AfterBy(df, user_query) ==
    LET words == split(user_query)
    IN  {words[i + 1] : i \in {k \in 1..(Len(words) - 1) :
                                  /\ lower(words[k]) = "by"
                                  /\ \E j \in 1..Len(df.columns) : df.columns[j] = words[k + 1]}}

\* The group-by branch is the one that answers, and the query names a column
C18_ByColumn ==
    /\ AnalysisReturned
    /\ AnyIn(C18_GroupKeywords, lower(request.args.user_query))
    /\ ~AnyIn(C18_EarlierKeywords, lower(request.args.user_query))
    /\ C18_AfterBy(read_csv(request.args.data_content).content, request.args.user_query) # {}

\* C18: in the group-by branch, a query whose word after "by" is a column C
\* gets the grouped analysis by C: the rows per group when it asks for a
\* count, the means of the numeric columns per group when it asks for an
\* average or mean, and count and mean per group otherwise.
C18_GroupedAsAsked ==
    C18_ByColumn =>
        LET df == read_csv(request.args.data_content).content
            query_lower == lower(request.args.user_query)
            C == CHOOSE c \in C18_AfterBy(df, request.args.user_query) : TRUE
            j == ColIndex(df, C)
            title == <<"Grouped Analysis by '", C, "':">>
            means == GroupMean(df, j, numeric_cols(df))
        IN  AnalysisResult.type = "str" /\
            IF Contains("count", query_lower)
            THEN AnalysisResult.value = title \o <<"size", GroupSize(df, j)>>
            ELSE IF AnyIn({"average", "mean"}, query_lower)
            THEN \/ AnalysisResult.value = title \o <<"mean", means>>
                 \/ /\ Len(numeric_cols(df)) = 0
                    /\ AnalysisResult.value = <<"No numeric columns found for averaging.">>
            ELSE AnalysisResult.value = title \o <<"count_mean", means>>

\* ----------------------------------------------------------------------
C19_TopKeywords == {"top", "highest", "maximum", "largest"}

C19_EarlierKeywords == C18_EarlierKeywords \cup C18_GroupKeywords

\* The numeric columns of the data that the query names
C19_Named(df, query_lower) ==
    {j \in 1..Len(df.columns) :
        Contains(lower(df.columns[j]), query_lower) /\ IsNumericCol(df, j)}

\* The top-N branch is the one that answers, and the query names a numeric
\* column and no other column
C19_ByNumericColumn ==
    /\ AnalysisReturned
    /\ AnyIn(C19_TopKeywords, lower(request.args.user_query))
    /\ ~AnyIn(C19_EarlierKeywords, lower(request.args.user_query))
    /\ LET df == read_csv(request.args.data_content).content
       IN  /\ C19_Named(df, lower(request.args.user_query)) # {}
           /\ \A j \in 1..Len(df.columns) :
                 Contains(lower(df.columns[j]), lower(request.args.user_query))
                     => IsNumericCol(df, j)

\* C19: in the top-N branch, a query that names a numeric column gets
\* 'Top N values by <column>' with the N rows that have the largest values
\* of the column, largest first (N the first integer of the query, else 10).
C19_LargestRows ==
    C19_ByNumericColumn =>
        LET df == read_csv(request.args.data_content).content
            query_lower == lower(request.args.user_query)
            j == CHOOSE c \in C19_Named(df, query_lower) :
                     \A k \in C19_Named(df, query_lower) : c <= k
            numbers == FirstDigits(request.args.user_query)
            N == IF numbers = "" THEN 10 ELSE int(numbers)
        IN  /\ AnalysisResult.type = "str"
            /\ AnalysisResult.value =
                  <<"Top ", N, " values by '", df.columns[j], "':", nlargest(df, N, j)>>

\* ----------------------------------------------------------------------
\* The texts, in document order, of the elements of the page that satisfy
\* the test, outside script and style.
C20_Texts(page, Test(_)) ==
    LET els == SelectSeq(page, LAMBDA el : el.tag \notin {"script", "style"} /\ Test(el))
    IN  [i \in 1..Len(els) |-> strip(els[i].text)]

IsPrefix(s, t) == Len(s) <= Len(t) /\ \A i \in 1..Len(s) : s[i] = t[i]

\* C20: the result of a scrape is bounded: a 'headings' prompt gets the
\* first 5 headings of the page (all of them when there are fewer), a
\* 'links' prompt the first 10 link texts, and any other prompt without
\* 'title' the cleaned text itself when it has at most 500 characters and
\* otherwise its first 500 characters followed by '...'.
C20_Bounded ==
    (ScrapeReturned /\ ~Contains("title", lower(request.args.prompt))) =>
        LET p == lower(request.args.prompt)
            result == response.body.result
            headings == C20_Texts(Answer.page, LAMBDA el : el.tag \in {"h1", "h2", "h3"})
            links == C20_Texts(Answer.page, LAMBDA el : el.tag = "a" /\ el.href)
            text == CleanText(concat(get_text(Decomposed(Answer.page))))
        IN  IF Contains("headings", p)
            THEN /\ Len(result.value) = Min(5, Len(headings))
                 /\ IsPrefix(result.value, headings)
            ELSE IF Contains("links", p)
            THEN /\ Len(result.value) = Min(10, Len(links))
                 /\ IsPrefix(result.value, links)
            ELSE IF Len(text) <= 500
            THEN result.value = <<text>>
            ELSE /\ Len(result.value[1]) = 503
                 /\ SubSeq(result.value[1], 1, 500) = SubSeq(text, 1, 500)
                 /\ SubSeq(result.value[1], 501, 503) = "..."

C20_Witness ==
    /\ ScrapeReturned
    /\ request.args.prompt = "summarize the text"
    /\ Answer.page = LongPage
    /\ Len(CleanText(concat(get_text(Decomposed(Answer.page))))) > 500
    /\ Len(response.body.result.value[1]) = 503

\* ----------------------------------------------------------------------
\* The provider answered the crypto lookup with a non-empty market price.
C21_Priced ==
    /\ Served("/api/finance/crypto-price")
    /\ Answer.ok
    /\ "regularMarketPrice" \in DOMAIN Answer.info
    /\ Answer.info["regularMarketPrice"] # 0

\* What the report shows at a position for an optional field
C21_Shows(report, at, key) ==
    IF key \in DOMAIN Answer.info THEN report[at] = Answer.info[key]
    ELSE report[at] = "N/A"

\* C21: whenever the provider returns a non-empty market price, the crypto
\* lookup returns the price report, with the provider's value for each
\* optional field (24h change, volume, market cap, circulating supply) and
\* 'N/A' for each one the provider did not return; never an error text.
C21_ReportWithNA ==
    C21_Priced =>
        LET report == response.body.result.value
        IN  /\ response.status = 200
            /\ report[1] = "**Cryptocurrency Price: "
            /\ Len(report) = 16
            /\ report[5] = Answer.info["regularMarketPrice"]
            /\ C21_Shows(report, 8, "regularMarketChangePercent")
            /\ C21_Shows(report, 11, "volume")
            /\ C21_Shows(report, 13, "marketCap")
            /\ C21_Shows(report, 16, "circulatingSupply")

====
